---- MODULE Spec2Model ----
(***************************************************************************)
(* The visual map core of FAST-LIVO2: Frame (src/src/frame.cpp) and        *)
(* VisualPoint (src/src/visual_point.cpp).  Features are heap objects      *)
(* named by their address; a Frame lists the Features it owns in fts_, a   *)
(* VisualPoint lists the Features that observe it in obs_ (newest first).  *)
(***************************************************************************)
EXTENDS Integers, Sequences, FiniteSets

\* ---------------------------------------------------------------- bounds
NumFeat == 3        \* Feature addresses 1..NumFeat
NumPoints == 1      \* VisualPoints 1..NumPoints
MaxFrames == 5      \* Frame construction attempts (caps frame_counter_)
NumFrames == 2      \* construction attempts while the object graph is explored
MaxObs == 3         \* longest observation list explored

\* ------------------------------------------------------ program constants
NULL == 0           \* nullptr
FLT_MAX == 9        \* std::numeric_limits<float>::max(), the largest score

Feat == 1..NumFeat
Points == 1..NumPoints
Ptr == Feat \cup {NULL}

\* The 0.5 of line 98 and the 0 of line 75.  A cosine is kept exactly, as
\* <<x, n>> standing for x / sqrt(n) with n > 0.
COS_THRESHOLD == <<1, 4>>
COS_ZERO == <<0, 1>>

\* What the estimator passes in: the fields a Feature is constructed with
\* (score_, and T_f_w_ given by the translation of its inverse, the camera
\* position in the world), images, query positions and pixels.  Seen from
\* the point at <<1, 1, 1>> the cameras are at <<1, 0, 0>>, <<1, 0, 1>> and at
\* the point itself; the queries at <<1, 1, 0>> (cosines 1/sqrt(2), exactly
\* 1/2, 0), <<-1, 0, 0>> (none positive), <<1, 0, 3>> and the point itself.
FeatureInputSeq ==
    << [score_ |-> 1, T_f_w_ |-> <<2, 1, 1>>],
       [score_ |-> 2, T_f_w_ |-> <<2, 1, 2>>],
       [score_ |-> FLT_MAX, T_f_w_ |-> <<1, 1, 1>>] >>
FeatureInputs == { FeatureInputSeq[i] : i \in 1..Len(FeatureInputSeq) }
\* The lifetime operations never read a Feature's fields: the specification
\* of the object graph constructs every Feature with the same ones.
LifetimeInputs == { FeatureInputSeq[1] }
Images == {"gray", "gray_other_size", "empty", "not_gray"}
FramePositions == { <<2, 2, 1>>, <<0, 1, 1>>, <<2, 1, 4>>, <<1, 1, 1>> }
Pixels == { <<0, 0>>, <<300, 0>> }
PointPositions == { <<1, 1, 1>> }

VARIABLES
    frame_counter_,   \* Frame::frame_counter_
    frames,           \* the Frames constructed so far, in construction order:
                      \* [id_, fts_, alive]; a destroyed Frame keeps its record
    heap,             \* Feature address -> "unalloc" | "live" | "freed"
    nfree,            \* Feature address -> times delete was applied to it
    feat,             \* Feature address -> its fields [score_, T_f_w_]
    palive,           \* VisualPoint -> constructed and not yet destroyed
    pos_,             \* VisualPoint::pos_
    obs_,             \* VisualPoint::obs_
    ref_patch,        \* VisualPoint::ref_patch
    has_ref_patch_,   \* VisualPoint::has_ref_patch_
    age,              \* per obs_ entry, its rank by time of addFrameRef
    ret               \* the last operation, its arguments and what it returned

vars == <<frame_counter_, frames, heap, nfree, feat, palive, pos_, obs_,
          ref_patch, has_ref_patch_, age, ret>>

frameVars == <<frame_counter_, frames>>
pointVars == <<palive, pos_, obs_, ref_patch, has_ref_patch_, age>>

\* ------------------------------------------------------------- helpers
Range(s) == { s[i] : i \in 1..Len(s) }

Min2(a, b) == IF a < b THEN a ELSE b

\* delete x: the allocation is released; a second delete of the same
\* address is undefined behaviour, recorded in nfree.
Delete(h, x) == [h EXCEPT ![x] = "freed"]
CountDelete(n, x) == [n EXCEPT ![x] = Min2(@ + 1, 2)]

RECURSIVE DeleteAll(_, _)
DeleteAll(h, s) ==
    IF s = <<>> THEN h ELSE DeleteAll(Delete(h, Head(s)), Tail(s))

RECURSIVE CountDeleteAll(_, _)
CountDeleteAll(n, s) ==
    IF s = <<>> THEN n ELSE CountDeleteAll(CountDelete(n, Head(s)), Tail(s))

\* ------------------------------------------------------------ Frame
\* Frame::initFrame: TRUE when it returns, FALSE when it throws.
initFrame(img) ==
    IF img = "empty" THEN FALSE
    ELSE IF img = "not_gray" THEN FALSE
    ELSE TRUE

\* Frame::Frame: id_(frame_counter_++) runs before initFrame(img); when
\* initFrame throws no Frame comes to exist.
NewFrame(img) ==
    /\ frame_counter_ < MaxFrames
    /\ frame_counter_' = frame_counter_ + 1
    /\ frames' = IF initFrame(img)
                 THEN Append(frames, [id_ |-> frame_counter_, fts_ |-> <<>>,
                                      alive |-> TRUE])
                 ELSE frames
    /\ ret' = [op |-> "Frame", img |-> img]
    /\ UNCHANGED <<heap, nfree, feat, pointVars>>

\* The estimator makes a Feature for Frame k and the Frame lists it.
NewFeature(k, f, in) ==
    /\ k \in 1..Len(frames)
    /\ frames[k].alive
    /\ heap[f] = "unalloc"
    /\ heap' = [heap EXCEPT ![f] = "live"]
    /\ feat' = [feat EXCEPT ![f] = in]
    /\ frames' = [frames EXCEPT ![k].fts_ = Append(@, f)]
    /\ ret' = [op |-> "Feature", f |-> f]
    /\ UNCHANGED <<frame_counter_, nfree, pointVars>>

\* Frame::~Frame: delete every Feature of fts_; nothing else.
DestroyFrame(k) ==
    /\ k \in 1..Len(frames)
    /\ frames[k].alive
    /\ heap' = DeleteAll(heap, frames[k].fts_)
    /\ nfree' = CountDeleteAll(nfree, frames[k].fts_)
    /\ frames' = [frames EXCEPT ![k].alive = FALSE]
    /\ ret' = [op |-> "~Frame", k |-> k]
    /\ UNCHANGED <<frame_counter_, feat, pointVars>>

\* --------------------------------------------------------- VisualPoint
PushFront(s, x) == <<x>> \o s

\* age is bookkeeping of the model, not program state: entry i of age[p] is
\* the rank of obs_[p][i] by the time it was added (1 = oldest).  Ranks are
\* renumbered 1..n, in the same relative order, when entries are erased.
Renumber(a) ==
    [i \in 1..Len(a) |-> Cardinality({ j \in 1..Len(a) : a[j] <= a[i] })]

\* VisualPoint::addFrameRef
addFrameRef(p, ftr) ==
    /\ palive[p]
    /\ heap[ftr] = "live"
    /\ Len(obs_[p]) < MaxObs
    /\ obs_' = [obs_ EXCEPT ![p] = PushFront(@, ftr)]
    /\ age' = [age EXCEPT ![p] = PushFront(@, Len(@) + 1)]
    /\ ret' = [op |-> "addFrameRef", p |-> p, f |-> ftr]
    /\ UNCHANGED <<frameVars, heap, nfree, feat, palive, pos_, ref_patch,
                   has_ref_patch_>>

\* The index of the first entry of s equal to x, 0 when there is none
\* (the scan of lines 54-62).
\* A scan that keeps going: the last match wins.
RECURSIVE FindLast(_, _, _)
FindLast(s, x, i) ==
    IF i > Len(s) THEN 0
    ELSE LET later == FindLast(s, x, i + 1) IN
         IF later # 0 THEN later ELSE IF s[i] = x THEN i ELSE 0

RECURSIVE FindFirst(_, _, _)
FindFirst(s, x, i) ==
    IF i > Len(s) THEN 0
    ELSE IF s[i] = x THEN i
    ELSE FindFirst(s, x, i + 1)

EraseAt(s, i) == SubSeq(s, 1, i - 1) \o SubSeq(s, i + 1, Len(s))

\* VisualPoint::deleteFeatureRef
deleteFeatureRef(p, ftr) ==
    LET it == FindFirst(obs_[p], ftr, 1) IN
    /\ palive[p]
    /\ IF ref_patch[p] = ftr
       THEN /\ ref_patch' = [ref_patch EXCEPT ![p] = NULL]
            /\ has_ref_patch_' = [has_ref_patch_ EXCEPT ![p] = FALSE]
       ELSE UNCHANGED <<ref_patch, has_ref_patch_>>
    /\ IF it # 0
       THEN /\ heap' = Delete(heap, obs_[p][it])
            /\ nfree' = CountDelete(nfree, obs_[p][it])
            /\ obs_' = [obs_ EXCEPT ![p] = EraseAt(@, it)]
            /\ age' = [age EXCEPT ![p] = Renumber(EraseAt(@, it))]
       ELSE UNCHANGED <<heap, nfree, obs_, age>>
    /\ ret' = [op |-> "deleteFeatureRef", p |-> p, f |-> ftr]
    /\ UNCHANGED <<frameVars, feat, palive, pos_>>

\* The entries the loop of lines 129-140 deletes, in order, and the ones
\* it keeps.
RECURSIVE NonRef(_, _)
NonRef(s, ref) ==
    IF s = <<>> THEN <<>>
    ELSE (IF Head(s) # ref THEN <<Head(s)>> ELSE <<>>) \o NonRef(Tail(s), ref)

\* The loop deleting without erasing.
KeepAll(s, ref) == s

RECURSIVE KeepRef(_, _)
KeepRef(s, ref) ==
    IF s = <<>> THEN <<>>
    ELSE (IF Head(s) # ref THEN <<>> ELSE <<Head(s)>>) \o KeepRef(Tail(s), ref)

\* The ranks of the kept entries.
RECURSIVE KeepAge(_, _, _)
KeepAge(s, a, ref) ==
    IF s = <<>> THEN <<>>
    ELSE (IF Head(s) # ref THEN <<>> ELSE <<Head(a)>>)
         \o KeepAge(Tail(s), Tail(a), ref)

\* VisualPoint::deleteNonRefPatchFeatures
deleteNonRefPatchFeatures(p) ==
    /\ palive[p]
    /\ heap' = DeleteAll(heap, NonRef(obs_[p], ref_patch[p]))
    /\ nfree' = CountDeleteAll(nfree, NonRef(obs_[p], ref_patch[p]))
    /\ obs_' = [obs_ EXCEPT ![p] = KeepRef(@, ref_patch[p])]
    /\ age' = [age EXCEPT ![p] = Renumber(KeepAge(obs_[p], @, ref_patch[p]))]
    /\ ret' = [op |-> "deleteNonRefPatchFeatures", p |-> p,
               n |-> Len(NonRef(obs_[p], ref_patch[p]))]
    /\ UNCHANGED <<frameVars, feat, palive, pos_, ref_patch, has_ref_patch_>>

\* VisualPoint::~VisualPoint
DestroyPoint(p) ==
    /\ palive[p]
    /\ heap' = DeleteAll(heap, obs_[p])
    /\ nfree' = CountDeleteAll(nfree, obs_[p])
    /\ obs_' = [obs_ EXCEPT ![p] = <<>>]
    /\ age' = [age EXCEPT ![p] = <<>>]
    /\ ref_patch' = [ref_patch EXCEPT ![p] = NULL]
    /\ palive' = [palive EXCEPT ![p] = FALSE]
    /\ ret' = [op |-> "~VisualPoint", p |-> p]
    /\ UNCHANGED <<frameVars, feat, pos_, has_ref_patch_>>

\* The estimator designates a member observation as the reference patch
\* (it writes the two public fields).
SetRefPatch(p, ftr) ==
    /\ palive[p]
    /\ ftr \in Range(obs_[p])
    /\ ref_patch' = [ref_patch EXCEPT ![p] = ftr]
    /\ has_ref_patch_' = [has_ref_patch_ EXCEPT ![p] = TRUE]
    /\ ret' = [op |-> "SetRefPatch", p |-> p, f |-> ftr]
    /\ UNCHANGED <<frameVars, heap, nfree, feat, palive, pos_, obs_, age>>

\* ------------------------------------------------- viewpoint selection
Sub(a, b) == <<a[1] - b[1], a[2] - b[2], a[3] - b[3]>>
Dot(a, b) == a[1] * b[1] + a[2] * b[2] + a[3] * b[3]

\* obs_dir.dot(dir) of two normalised vectors, exactly: u.d / sqrt(|u|^2 |d|^2).
\* Normalising the zero vector leaves it zero or makes it NaN, depending on
\* the Eigen version; either way no comparison of lines 81 and 98 sees the
\* result as greater than anything, which is how 0 behaves here.
CosAngle(u, d) ==
    IF Dot(u, u) = 0 \/ Dot(d, d) = 0 THEN COS_ZERO
    ELSE <<Dot(u, d), Dot(u, u) * Dot(d, d)>>

\* a > b for cosines a = x1/sqrt(n1) and b = x2/sqrt(n2), by signs and squares.
CosGT(a, b) ==
    IF a[1] >= 0 /\ b[1] < 0 THEN TRUE
    ELSE IF a[1] < 0 /\ b[1] >= 0 THEN FALSE
    ELSE IF a[1] >= 0 THEN a[1] * a[1] * b[2] > b[1] * b[1] * a[2]
    ELSE a[1] * a[1] * b[2] < b[1] * b[1] * a[2]

\* cos_angle < min_cos_angle, as the variable's name suggests.
BetterIsSmaller(cos_angle, min_cos_angle) == CosGT(min_cos_angle, cos_angle)

\* cos_angle > 0: compared with the initial value, not the running best.
BetterThanInitial(cos_angle, min_cos_angle) == CosGT(cos_angle, COS_ZERO)

\* Line 81: if (cos_angle > min_cos_angle)
Better(cos_angle, min_cos_angle) == CosGT(cos_angle, min_cos_angle)

\* min_cos_angle <= 0.5
TooObliqueOrEqual(min_cos_angle) == ~CosGT(min_cos_angle, COS_THRESHOLD)

\* Line 98: if (min_cos_angle < 0.5) return false;
TooOblique(min_cos_angle) == CosGT(COS_THRESHOLD, min_cos_angle)

\* The loop of lines 76-86 from entry i on: [min_it, min_cos_angle].
RECURSIVE ViewLoop(_, _, _, _, _, _, _)
ViewLoop(obs, mem, pos, obs_dir, i, min_it, min_cos_angle) ==
    IF i > Len(obs) THEN [min_it |-> min_it, min_cos_angle |-> min_cos_angle]
    ELSE LET cos_angle == CosAngle(obs_dir, Sub(mem[obs[i]].T_f_w_, pos)) IN
         IF Better(cos_angle, min_cos_angle)
         THEN ViewLoop(obs, mem, pos, obs_dir, i + 1, i, cos_angle)
         ELSE ViewLoop(obs, mem, pos, obs_dir, i + 1, min_it, min_cos_angle)

\* VisualPoint::getCloseViewObs on the list obs of a point at pos, reading
\* the Features through mem; ftr is the caller's variable, written only
\* when the list is not empty.
getCloseViewObs(obs, pos, mem, framepos, ftr, cur_px) ==
    IF Len(obs) <= 0 THEN [found |-> FALSE, ftr |-> ftr]
    ELSE LET r == ViewLoop(obs, mem, pos, Sub(framepos, pos), 1, 1, COS_ZERO) IN
         [found |-> ~TooOblique(r.min_cos_angle), ftr |-> obs[r.min_it]]

\* ------------------------------------------------------ score selection
\* score_ <= min_score
ScoreLessEq(score, min_score) == score <= min_score

\* Line 116: if ((*it)->score_ < min_score)
ScoreLess(score, min_score) == score < min_score

\* The loop of lines 114-121 from entry i on: the final min_it.
RECURSIVE ScoreLoop(_, _, _, _, _)
ScoreLoop(obs, mem, i, min_it, min_score) ==
    IF i > Len(obs) THEN min_it
    ELSE IF ScoreLess(mem[obs[i]].score_, min_score)
         THEN ScoreLoop(obs, mem, i + 1, i, mem[obs[i]].score_)
         ELSE ScoreLoop(obs, mem, i + 1, min_it, min_score)

\* VisualPoint::findMinScoreFeature on a non-empty list: the Feature at
\* min_it.
findMinScoreFeature(obs, mem) == obs[ScoreLoop(obs, mem, 1, 1, FLT_MAX)]

\* The selections dereference every entry of the list.  They are applied to
\* lists of live Features, read through feat; a list that holds a pointer to
\* freed memory makes the read undefined.
AllLive(p) == \A f \in Range(obs_[p]) : heap[f] = "live"

GetCloseViewObs(p, framepos, cur_px) ==
    LET r == getCloseViewObs(obs_[p], pos_[p], feat, framepos, NULL, cur_px) IN
    /\ palive[p]
    /\ AllLive(p)
    /\ ret' = [op |-> "getCloseViewObs", p |-> p, framepos |-> framepos,
               found |-> r.found, ftr |-> r.ftr]
    /\ UNCHANGED <<frameVars, heap, nfree, feat, pointVars>>

\* On an empty list line 122 dereferences end(): any pointer may come back.
FindMinScoreFeature(p, junk) ==
    /\ palive[p]
    /\ AllLive(p)
    /\ ret' = [op |-> "findMinScoreFeature", p |-> p,
               ftr |-> IF obs_[p] = <<>> THEN junk
                       ELSE findMinScoreFeature(obs_[p], feat)]
    /\ UNCHANGED <<frameVars, heap, nfree, feat, pointVars>>

\* ------------------------------------------------------- specifications
\* VisualPoint::VisualPoint initialises every flag and leaves ref_patch out
\* of its initialiser list: the slot starts with an indeterminate value.
\* The program at start: no Frame, no Feature, the points constructed.
Init ==
    /\ frame_counter_ = 0
    /\ frames = <<>>
    /\ heap = [f \in Feat |-> "unalloc"]
    /\ nfree = [f \in Feat |-> 0]
    /\ feat = [f \in Feat |-> FeatureInputSeq[1]]
    /\ palive = [p \in Points |-> TRUE]
    /\ pos_ \in [Points -> PointPositions]
    /\ obs_ = [p \in Points |-> <<>>]
    /\ ref_patch \in [Points -> Ptr]
    /\ has_ref_patch_ = [p \in Points |-> FALSE]
    /\ age = [p \in Points |-> <<>>]
    /\ ret = [op |-> "init"]

\* Frame construction and destruction alone.
NextFrame ==
    \/ \E img \in Images : NewFrame(img)
    \/ \E k \in 1..MaxFrames : DestroyFrame(k)

SpecFrame == Init /\ [][NextFrame]_vars

\* The object graph: Frames, their Features and the points observing them.
Next ==
    \/ \E img \in Images : frame_counter_ < NumFrames /\ NewFrame(img)
    \/ \E k \in 1..NumFrames, f \in Feat, in \in LifetimeInputs : NewFeature(k, f, in)
    \/ \E k \in 1..NumFrames : DestroyFrame(k)
    \/ \E p \in Points, f \in Feat : addFrameRef(p, f)
    \/ \E p \in Points, f \in Ptr : deleteFeatureRef(p, f)
    \/ \E p \in Points : deleteNonRefPatchFeatures(p)
    \/ \E p \in Points, f \in Feat : SetRefPatch(p, f)
    \/ \E p \in Points : DestroyPoint(p)

Spec == Init /\ [][Next]_vars

\* One point and the Features of one Frame, after the estimator constructed
\* Frame 0 and its Features from the inputs numbered in K.  Feature
\* addresses are interchangeable, so the inputs are handed out in the order
\* of FeatureInputSeq.  R holds the values the point's uninitialised
\* ref_patch may have.
Built(K, R) ==
    /\ frame_counter_ = 1
    /\ frames = << [id_ |-> 0, fts_ |-> [i \in 1..NumFeat |-> i], alive |-> TRUE] >>
    /\ heap = [f \in Feat |-> "live"]
    /\ nfree = [f \in Feat |-> 0]
    /\ \E idx \in [Feat -> K] :
          /\ \A i, j \in Feat : i < j => idx[i] <= idx[j]
          /\ feat = [f \in Feat |-> FeatureInputSeq[idx[f]]]
    /\ palive = [p \in Points |-> p = 1]
    /\ pos_ \in [Points -> PointPositions]
    /\ obs_ = [p \in Points |-> <<>>]
    /\ ref_patch \in [Points -> R]
    /\ \A p \in Points : ~palive[p] => ref_patch[p] = NULL
    /\ has_ref_patch_ = [p \in Points |-> FALSE]
    /\ age = [p \in Points |-> <<>>]
    /\ ret = [op |-> "init"]

\* The operations that change a point's observation list; they never read a
\* Feature's fields.
InitPoint == Built({1}, Ptr)

NextPoint ==
    \/ \E p \in Points, f \in Feat : addFrameRef(p, f)
    \/ \E p \in Points, f \in Ptr : deleteFeatureRef(p, f)
    \/ \E p \in Points : deleteNonRefPatchFeatures(p)
    \/ \E p \in Points, f \in Feat : SetRefPatch(p, f)

SpecPoint == InitPoint /\ [][NextPoint]_vars

\* The selections, on the lists addFrameRef builds.  No operation here reads
\* or writes ref_patch, whose indeterminate initial value is left at null.
InitSelect == Built(1..Len(FeatureInputSeq), {NULL})

NextSelect ==
    \/ \E p \in Points, f \in Feat : addFrameRef(p, f)
    \/ \E p \in Points, framepos \in FramePositions, cur_px \in Pixels :
          GetCloseViewObs(p, framepos, cur_px)
    \/ \E p \in Points :
          \E junk \in (IF obs_[p] = <<>> THEN Ptr ELSE {NULL}) :
              FindMinScoreFeature(p, junk)

SpecSelect == InitSelect /\ [][NextSelect]_vars

\* ================================================================ claims
\* ------------------------------------------------------------------- C1
\* C1: once a Frame is destroyed, no surviving VisualPoint still holds one
\* of its Features, neither in its observation list nor as its designated
\* reference patch.
C1_DestroyedFrameLeavesNoObservation ==
    \A k \in 1..Len(frames) : ~frames[k].alive =>
        \A p \in Points : palive[p] =>
            \A f \in Range(frames[k].fts_) :
                /\ f \notin Range(obs_[p])
                /\ has_ref_patch_[p] => ref_patch[p] # f

\* ------------------------------------------------------------------- C2
\* C2: a Feature is freed at most once, and never while a live Frame still
\* lists it.
C2_FeatureFreedOnceAfterFrameDropsIt ==
    \A f \in Feat :
        /\ nfree[f] <= 1
        /\ heap[f] = "freed" =>
              \A k \in 1..Len(frames) :
                  frames[k].alive => f \notin Range(frames[k].fts_)

\* ------------------------------------------------------------------- C3
\* C3: has_ref_patch_ is true if and only if ref_patch is non-null and a
\* member of the observation list.
C3_HasRefPatchIffMember ==
    \A p \in Points : palive[p] =>
        (has_ref_patch_[p] <=>
            (ref_patch[p] # NULL /\ ref_patch[p] \in Range(obs_[p])))

\* ------------------------------------------------------------------- C4
\* What a deleteFeatureRef(f) step on point p must have done.
C4_Post(p, f) ==
    LET obs == obs_[p]
        new == obs_'[p] IN
    /\ ref_patch[p] = f => ref_patch'[p] = NULL /\ ~has_ref_patch_'[p]
    /\ ref_patch[p] # f => /\ ref_patch'[p] = ref_patch[p]
                           /\ has_ref_patch_'[p] = has_ref_patch_[p]
    /\ f \in Range(obs) =>
          \E i \in 1..Len(obs) :
              /\ obs[i] = f
              /\ \A j \in 1..(i - 1) : obs[j] # f
              /\ Len(new) = Len(obs) - 1
              /\ \A j \in 1..(i - 1) : new[j] = obs[j]
              /\ \A j \in i..Len(new) : new[j] = obs[j + 1]
              /\ heap'[f] = "freed"
              /\ nfree'[f] = Min2(nfree[f] + 1, 2)
              /\ \A g \in Feat \ {f} : heap'[g] = heap[g] /\ nfree'[g] = nfree[g]
    /\ f \notin Range(obs) => new = obs /\ heap' = heap /\ nfree' = nfree

\* C4: a deleteFeatureRef(f) step clears the reference-patch slot and flag
\* exactly when f is the reference patch, erases and frees only the first
\* entry equal to f, keeping the others in order, and on a miss leaves the
\* list and the heap alone.
C4_DeleteFeatureRefErasesFirstMatch ==
    [][ret'.op = "deleteFeatureRef" => C4_Post(ret'.p, ret'.f)]_vars

\* C4, witness: deleteFeatureRef(f) has just erased and freed one f of a
\* list that held f twice, after another entry: the other two are still
\* there, in order.
C4_Witness ==
    /\ ret.op = "deleteFeatureRef"
    /\ ret.f # NULL
    /\ nfree[ret.f] = 1
    /\ Len(obs_[ret.p]) = 2
    /\ obs_[ret.p][1] # ret.f
    /\ obs_[ret.p][2] = ret.f

\* ------------------------------------------------------------------- C5
\* What a deleteNonRefPatchFeatures step on point p must have done.
C5_Post(p) ==
    LET obs == obs_[p]
        new == obs_'[p]
        ref == ref_patch[p] IN
    /\ Range(new) \subseteq {ref_patch'[p]}
    /\ Len(new) = Cardinality({ i \in 1..Len(obs) : obs[i] = ref })
    /\ \A f \in Range(obs) \ Range(new) : heap'[f] = "freed"
    /\ \A f \in Feat : f \notin Range(obs) \/ f = ref => heap'[f] = heap[f]
    /\ ref = NULL => new = <<>>
    /\ ref_patch'[p] = ref
    /\ has_ref_patch_'[p] = has_ref_patch_[p]

QueryCos(p, i) ==
    CosAngle(Sub(ret.framepos, pos_[p]), Sub(feat[obs_[p][i]].T_f_w_, pos_[p]))

\* Entry i has the largest cosine of the list.
IsBest(p, i) == \A j \in 1..Len(obs_[p]) : ~CosGT(QueryCos(p, j), QueryCos(p, i))

\* C6: getCloseViewObs reports not found exactly when the list is empty or
\* every cosine is below 0.5; when found, the Feature returned has the
\* largest cosine; no current_pixel changes the outcome.
C6_CloseViewFoundIffBestAtLeastHalf ==
    ret.op = "getCloseViewObs" =>
        LET p == ret.p
            obs == obs_[ret.p] IN
        /\ ~ret.found <=>
              (obs = <<>> \/ \A i \in 1..Len(obs) : CosGT(COS_THRESHOLD, QueryCos(p, i)))
        /\ ret.found => \E i \in 1..Len(obs) : obs[i] = ret.ftr /\ IsBest(p, i)
        /\ \A px \in Pixels :
              getCloseViewObs(obs, pos_[p], feat, ret.framepos, NULL, px)
                  = [found |-> ret.found, ftr |-> ret.ftr]

\* C6, witness: a found answer that is not the list's first entry.
C6_Witness ==
    /\ ret.op = "getCloseViewObs"
    /\ ret.found
    /\ Len(obs_[ret.p]) >= 2
    /\ ret.ftr # obs_[ret.p][1]

\* The list of ret's point has one entry, whose cosine is exactly 0.5.
OneObservationAtHalf ==
    /\ ret.op = "getCloseViewObs"
    /\ Len(obs_[ret.p]) = 1
    /\ ~CosGT(QueryCos(ret.p, 1), COS_THRESHOLD)
    /\ ~CosGT(COS_THRESHOLD, QueryCos(ret.p, 1))

\* C7, as claimed: with one observation at cosine exactly 0.5,
\* getCloseViewObs reports not found.
C7_ExactHalfNotFound == OneObservationAtHalf => ~ret.found

\* C7, amended: with one observation at cosine exactly 0.5, getCloseViewObs
\* reports found and returns that observation; only a cosine below 0.5 is
\* rejected.
C7_ExactHalfFound ==
    OneObservationAtHalf => ret.found /\ ret.ftr = obs_[ret.p][1]

\* C7, witness: such a call, answered found.
C7_Witness == OneObservationAtHalf /\ ret.found

\* The permutations of 1..n for every length of list, and a list reordered
\* by one.
Perms ==
    [n \in 0..MaxObs |->
        { f \in [1..n -> 1..n] : \A i, j \in 1..n : f[i] = f[j] => i = j }]
Reordered(obs, perm) == [i \in 1..Len(obs) |-> obs[perm[i]]]

\* C8, as claimed: every reordering of the list gives the same found flag
\* and the same Feature.
C8_ReorderSameResult ==
    ret.op = "getCloseViewObs" =>
        \A perm \in Perms[Len(obs_[ret.p])] :
            getCloseViewObs(Reordered(obs_[ret.p], perm), pos_[ret.p], feat,
                            ret.framepos, NULL, <<0, 0>>)
                = [found |-> ret.found, ftr |-> ret.ftr]

\* Every entry with the largest cosine is the same Feature.
UniqueBest(p) ==
    \A i, j \in 1..Len(obs_[p]) : IsBest(p, i) /\ IsBest(p, j) => obs_[p][i] = obs_[p][j]

\* C8, amended: every reordering of the list gives the same found flag, and,
\* when found with a single Feature attaining the largest cosine, the same
\* Feature.
C8_ReorderSameFoundAndUniqueBest ==
    ret.op = "getCloseViewObs" =>
        LET same == ret.found /\ UniqueBest(ret.p) IN
        \A perm \in Perms[Len(obs_[ret.p])] :
            LET r == getCloseViewObs(Reordered(obs_[ret.p], perm), pos_[ret.p],
                                     feat, ret.framepos, NULL, <<0, 0>>) IN
            /\ r.found = ret.found
            /\ same => r.ftr = ret.ftr

\* C8, witness: found, on a list of three different Features with a single
\* best one.
C8_Witness ==
    /\ ret.op = "getCloseViewObs"
    /\ ret.found
    /\ Len(obs_[ret.p]) = 3
    /\ Cardinality(Range(obs_[ret.p])) = 3
    /\ UniqueBest(ret.p)

\* ------------------------------------------------------------------- C9
\* C9: on a non-empty list built by addFrameRef, findMinScoreFeature returns
\* an entry with the smallest score_; among the entries with that score it is
\* the first of the list and the one added last.
C9_MinScoreFirstAndNewest ==
    ret.op = "findMinScoreFeature" /\ obs_[ret.p] # <<>> =>
        LET obs == obs_[ret.p]
            score(i) == feat[obs[i]].score_ IN
        \E i \in 1..Len(obs) :
            /\ obs[i] = ret.ftr
            /\ \A j \in 1..Len(obs) : score(i) <= score(j)
            /\ \A j \in 1..Len(obs) :
                  score(j) = score(i) => i <= j /\ age[ret.p][j] <= age[ret.p][i]

\* C9, witness: two different Features tie for the smallest score behind a
\* first entry with a larger one; the earlier of the two came back.
C9_Witness ==
    /\ ret.op = "findMinScoreFeature"
    /\ Len(obs_[ret.p]) = 3
    /\ feat[obs_[ret.p][1]].score_ > feat[obs_[ret.p][2]].score_
    /\ feat[obs_[ret.p][2]].score_ = feat[obs_[ret.p][3]].score_
    /\ obs_[ret.p][2] # obs_[ret.p][3]
    /\ ret.ftr = obs_[ret.p][2]

\* ------------------------------------------------------------------ C10
\* C10: each constructed Frame's id is one more than the id of the Frame
\* constructed before it.
C10_FrameIdsWithoutGaps ==
    \A i \in 2..Len(frames) : frames[i].id_ = frames[i - 1].id_ + 1

====
